---- MODULE Spec2Model ----
(***************************************************************************)
(* Window-state tracking and restoration engine of the window opacity      *)
(* tool (src/py.py): the store modified_windows, the attribute controller  *)
(* (set_window_alpha, set_passthrough_for_hwnd, restore_window,            *)
(* restore_all), the input arbiter (App._poll_inputs and the backtick      *)
(* toggle) and the exit paths (exit_app, signal handler, console control   *)
(* handler, the finally of main, atexit).                                  *)
(*                                                                         *)
(* The desktop is the environment: each window has an extended style word, *)
(* an alpha, a stacking flag and a liveness flag.  A Win32 call on a       *)
(* destroyed window fails by returning 0; through ctypes that is a return  *)
(* value, not a Python exception.                                          *)
(***************************************************************************)
EXTENDS Integers, FiniteSets, Sequences, TLC

\* ---------------------------------------------------------------- constants

WS_EX_LAYERED == 524288

WS_EX_TRANSPARENT == 32

OPAQUE == 255

\* ------------------------------------------------------------------- bounds

\* The percent inputs of the alpha specification range over
\* -MaxOver .. 100 + MaxOver, so that both clamps happen.
MaxOver == 3

\* ------------------------------------------------------------------- inputs

\* Window handles on the desktop (non-zero, as enum_top_level_windows gives).
Handles == {1, 2}

\* Extended style words window h may have before the tool touches it: plain
\* or already click-through (window 1), already layered (window 2).
InitStyles(h) ==
  IF h = 1
    THEN {0, WS_EX_TRANSPARENT}
    ELSE {WS_EX_LAYERED}

\* Slider values applied in the main specification.
Percents == {50}

\* Slider values (and out-of-range arguments) of the alpha specification.
AllPercents == (0 - MaxOver) .. (100 + MaxOver)

\* dwCtrlType of a console control event: CTRL_C, CTRL_BREAK, CTRL_CLOSE,
\* CTRL_LOGOFF, CTRL_SHUTDOWN.
CtrlTypes == {0, 1, 2, 5, 6}

\* The control events after which the system ends the process once the
\* handler has returned.
FatalCtrlTypes == {2, 5, 6}

VARIABLES
  win,               \* desktop: handle -> [ex, alpha, top, alive]
  win0,              \* the desktop as it was before the tool ran (history)
  modified_windows,  \* the store: tracked handle -> record
  ctrl_held,         \* App.ctrl_held
  backtick_prev,     \* App.backtick_prev
  sel,               \* handle selected in the combobox, 0 when none
  phase,             \* position of the process on its way to termination
  last,              \* the last handler run, its arguments and its outcome
  os_windows,        \* what EnumWindows reports, in order (enumeration)
  windows_list,      \* what enum_top_level_windows returned last
  keyb,              \* the physical backtick key and the tool's focus
  race               \* the two threads of the statement-level specification

\* The variables only the enumeration, keyboard and statement-level
\* specifications move; the handlers of the application leave them alone.
others == <<os_windows, windows_list, keyb, race>>

vars ==
  <<win, win0, modified_windows, ctrl_held, backtick_prev, sel, phase, last,
    others>>

\* --------------------------------------------------------- bit arithmetic

\* x & b # 0, for a single-bit mask b
HasBit(x, b) == (x \div b) % 2 = 1

\* x | b, for a single-bit mask b
BitOr(x, b) == IF HasBit(x, b) THEN x ELSE x + b

\* x & ~b, for a single-bit mask b
BitClear(x, b) == IF HasBit(x, b) THEN x - b ELSE x

\* --------------------------------------------------------------- the desktop

\* Whether handle h names a live window of desktop w.
IsWindow(w, h) == h \in DOMAIN w /\ w[h].alive

\* GetWindowLongPtr(hwnd, GWL_EXSTYLE): the style word, 0 on a stale handle.
safe_GetWindowLongPtr(w, h) == IF IsWindow(w, h) THEN w[h].ex ELSE 0

\* SetWindowLongPtr(hwnd, GWL_EXSTYLE, v): writes the style word; a window
\* that is not layered has no alpha and shows opaque, and a window whose
\* manager drops the alpha on a style write (resets) shows opaque until the
\* alpha is set again.  No effect on a stale handle.
safe_SetWindowLongPtr(w, h, v) ==
  IF IsWindow(w, h)
    THEN [w EXCEPT ![h].ex = v,
                   ![h].alpha = IF HasBit(v, WS_EX_LAYERED) /\ ~w[h].resets
                                  THEN @ ELSE OPAQUE]
    ELSE w

\* Whether SetLayeredWindowAttributes succeeds: the window must exist and
\* be layered.
LayeredOk(w, h) == IsWindow(w, h) /\ HasBit(w[h].ex, WS_EX_LAYERED)

\* SetLayeredWindowAttributes(hwnd, 0, a, LWA_ALPHA)
SetLayeredWindowAttributes(w, h, a) ==
  IF LayeredOk(w, h) THEN [w EXCEPT ![h].alpha = a] ELSE w

\* SetWindowPos(hwnd, HWND_TOPMOST / HWND_NOTOPMOST, ...)
SetWindowPos(w, h, topmost) ==
  IF IsWindow(w, h) THEN [w EXCEPT ![h].top = topmost] ELSE w

\* ------------------------------------------------------------------ the store

\* The record both creators write for a newly tracked window.
NewRecord(orig) ==
  [orig_ex |-> orig, alpha |-> OPAQUE, passthrough |-> FALSE,
   is_topmost |-> FALSE, passthrough_locked |-> FALSE]

\* modified_windows[h] = r
DictPut(mw, h, r) ==
  [k \in (DOMAIN mw) \cup {h} |-> IF k = h THEN r ELSE mw[k]]

\* del modified_windows[h]
DictDel(mw, h) == [k \in (DOMAIN mw) \ {h} |-> mw[k]]

\* The result of an engine call: the desktop and the store after it, the
\* value returned (as Python prints it) and whether an exception left it.
Result(w, mw, ret, exc) == [win |-> w, mw |-> mw, ret |-> ret, exc |-> exc]

PyBool(b) == IF b THEN "True" ELSE "False"

\* ------------------------------------------------------ attribute controller

Max(a, b) == IF a >= b THEN a ELSE b

Min(a, b) == IF a <= b THEN a ELSE b

\* The conversion as it would be if it rounded to nearest instead of
\* truncating.
AlphaByteRounded(p) == (Max(0, Min(100, p)) * 255 + 50) \div 100

\* a_byte = int(max(0, min(100, int(alpha_0_100))) * 255 / 100)
AlphaByte(p) == (Max(0, Min(100, p)) * 255) \div 100

\* The entry step as it would be if it captured the style word on every
\* call, not only when the window has no record yet.
EnsureEntryRecapture(w, mw, h) ==
  IF h \in DOMAIN mw
    THEN [mw EXCEPT ![h].orig_ex = safe_GetWindowLongPtr(w, h)]
    ELSE DictPut(mw, h, NewRecord(safe_GetWindowLongPtr(w, h)))

\* The store with an entry for h ensured: the first modification captures
\* the style word read from the window.
EnsureEntry(w, mw, h) ==
  IF h \in DOMAIN mw
    THEN mw
    ELSE DictPut(mw, h, NewRecord(safe_GetWindowLongPtr(w, h)))

\* set_window_alpha as it would be if it gave up on a window whose alpha
\* cannot be set before creating the record.
set_window_alpha_no_record(w, mw, h, p) ==
  IF h = 0 \/ ~IsWindow(w, h)
    THEN Result(w, mw, "False", FALSE)
    ELSE
      LET mw1    == EnsureEntry(w, mw, h)
          cur_ex == safe_GetWindowLongPtr(w, h)
          w1     == IF ~HasBit(cur_ex, WS_EX_LAYERED)
                      THEN safe_SetWindowLongPtr(w, h, BitOr(cur_ex, WS_EX_LAYERED))
                      ELSE w
          a_byte == AlphaByte(p)
          w2     == SetLayeredWindowAttributes(w1, h, a_byte)
          mw2    == [mw1 EXCEPT ![h].alpha = a_byte, ![h].is_topmost = TRUE]
      IN  Result(SetWindowPos(w2, h, TRUE), mw2, "True", FALSE)

\* set_window_alpha as it would be if it wrote a fresh record on every
\* call, keeping only the captured style word.
set_window_alpha_fresh_record(w, mw, h, p) ==
  IF h = 0
    THEN Result(w, mw, "False", FALSE)
    ELSE
      LET mw0    == EnsureEntry(w, mw, h)
          mw1    == DictPut(mw0, h, NewRecord(mw0[h].orig_ex))
          cur_ex == safe_GetWindowLongPtr(w, h)
          w1     == IF ~HasBit(cur_ex, WS_EX_LAYERED)
                      THEN safe_SetWindowLongPtr(w, h, BitOr(cur_ex, WS_EX_LAYERED))
                      ELSE w
          a_byte == AlphaByte(p)
          res    == LayeredOk(w1, h)
          w2     == SetLayeredWindowAttributes(w1, h, a_byte)
          mw2    == [mw1 EXCEPT ![h].alpha = a_byte, ![h].is_topmost = TRUE]
      IN  Result(SetWindowPos(w2, h, TRUE), mw2, PyBool(res), FALSE)

\* set_window_alpha(hwnd_int, alpha_0_100)
set_window_alpha(w, mw, h, p) ==
  IF h = 0
    THEN Result(w, mw, "False", FALSE)
    ELSE
      LET mw1    == EnsureEntry(w, mw, h)
          cur_ex == safe_GetWindowLongPtr(w, h)
          w1     == IF ~HasBit(cur_ex, WS_EX_LAYERED)
                      THEN safe_SetWindowLongPtr(w, h, BitOr(cur_ex, WS_EX_LAYERED))
                      ELSE w
          a_byte == AlphaByte(p)
          res    == LayeredOk(w1, h)
          w2     == SetLayeredWindowAttributes(w1, h, a_byte)
          mw2    == [mw1 EXCEPT ![h].alpha = a_byte]
          w3     == SetWindowPos(w2, h, TRUE)
          mw3    == [mw2 EXCEPT ![h].is_topmost = TRUE]
      IN  Result(w3, mw3, PyBool(res), FALSE)

\* set_passthrough_for_hwnd as it would be if disabling cleared only the
\* passthrough field and left passthrough_locked alone.
set_passthrough_keep_lock(w, mw, h, enable, mark_locked) ==
  LET mw1    == IF h \in DOMAIN mw
                  THEN mw
                  ELSE DictPut(mw, h, NewRecord(safe_GetWindowLongPtr(w, h)))
      cur_ex == safe_GetWindowLongPtr(w, h)
      on     == [mw1 EXCEPT ![h].passthrough = TRUE,
                            ![h].passthrough_locked =
                               IF mark_locked THEN TRUE ELSE @]
      off    == [mw1 EXCEPT ![h].passthrough = FALSE]
      new_ex == IF enable THEN BitOr(cur_ex, WS_EX_TRANSPARENT)
                          ELSE BitClear(cur_ex, WS_EX_TRANSPARENT)
      mw2    == IF enable THEN on ELSE off
  IN  IF new_ex = cur_ex
        THEN Result(w, mw2, "True", FALSE)
        ELSE Result(SetLayeredWindowAttributes(
                      safe_SetWindowLongPtr(w, h, new_ex), h, mw2[h].alpha),
                    mw2, "True", FALSE)

\* set_passthrough_for_hwnd as it would be if only the enabling branch set
\* the alpha again after writing the style word.
set_passthrough_reapply_on_enable(w, mw, h, enable, mark_locked) ==
  LET mw1    == EnsureEntry(w, mw, h)
      cur_ex == safe_GetWindowLongPtr(w, h)
      on     == [mw1 EXCEPT ![h].passthrough = TRUE,
                            ![h].passthrough_locked =
                               IF mark_locked THEN TRUE ELSE @]
      off    == [mw1 EXCEPT ![h].passthrough = FALSE,
                            ![h].passthrough_locked = FALSE]
  IN  IF enable
        THEN IF HasBit(cur_ex, WS_EX_TRANSPARENT)
               THEN Result(w, on, "True", FALSE)
               ELSE LET w1 == safe_SetWindowLongPtr(
                                w, h, BitOr(cur_ex, WS_EX_TRANSPARENT))
                        w2 == SetLayeredWindowAttributes(w1, h, on[h].alpha)
                    IN  Result(w2, on, "True", FALSE)
        ELSE IF ~HasBit(cur_ex, WS_EX_TRANSPARENT)
               THEN Result(w, off, "True", FALSE)
               ELSE Result(safe_SetWindowLongPtr(
                             w, h, BitClear(cur_ex, WS_EX_TRANSPARENT)),
                           off, "True", FALSE)

\* set_passthrough_for_hwnd(hwnd_int, enable, mark_locked)
set_passthrough_for_hwnd(w, mw, h, enable, mark_locked) ==
  LET mw1    == EnsureEntry(w, mw, h)
      cur_ex == safe_GetWindowLongPtr(w, h)
      on     == [mw1 EXCEPT ![h].passthrough = TRUE,
                            ![h].passthrough_locked =
                               IF mark_locked THEN TRUE ELSE @]
      off    == [mw1 EXCEPT ![h].passthrough = FALSE,
                            ![h].passthrough_locked = FALSE]
  IN  IF enable
        THEN IF HasBit(cur_ex, WS_EX_TRANSPARENT)
               THEN Result(w, on, "True", FALSE)
               ELSE LET w1 == safe_SetWindowLongPtr(
                                w, h, BitOr(cur_ex, WS_EX_TRANSPARENT))
                        w2 == SetLayeredWindowAttributes(w1, h, on[h].alpha)
                    IN  Result(w2, on, "True", FALSE)
        ELSE IF ~HasBit(cur_ex, WS_EX_TRANSPARENT)
               THEN Result(w, off, "True", FALSE)
               ELSE LET w1 == safe_SetWindowLongPtr(
                                w, h, BitClear(cur_ex, WS_EX_TRANSPARENT))
                        w2 == SetLayeredWindowAttributes(w1, h, off[h].alpha)
                    IN  Result(w2, off, "True", FALSE)

\* remove_topmost(hwnd_int)
remove_topmost(w, h) == SetWindowPos(w, h, FALSE)

\* restore_window as it would be if it dropped the two flags the tool sets
\* instead of writing back the captured style word.
restore_window_clear_flags(w, mw, h) ==
  IF h \in DOMAIN mw
    THEN LET w1 == SetLayeredWindowAttributes(w, h, OPAQUE)
             w2 == safe_SetWindowLongPtr(
                     w1, h,
                     BitClear(BitClear(safe_GetWindowLongPtr(w1, h),
                                       WS_EX_LAYERED), WS_EX_TRANSPARENT))
             w3 == SetWindowPos(w2, h, FALSE)
         IN  Result(w3, DictDel(mw, h), "None", FALSE)
    ELSE Result(w, mw, "None", FALSE)

\* restore_window(hwnd_int)
restore_window(w, mw, h) ==
  IF h \in DOMAIN mw
    THEN LET info == mw[h]
             w1   == SetLayeredWindowAttributes(w, h, OPAQUE)
             w2   == safe_SetWindowLongPtr(w1, h, info.orig_ex)
             w3   == remove_topmost(w2, h)
         IN  Result(w3, DictDel(mw, h), "None", FALSE)
    ELSE Result(w, mw, "None", FALSE)

\* The loop of restore_all as it would be if the failure of one window's
\* calls ended it: the windows after a destroyed one are left as they are.
RECURSIVE RestoreKeysAbort(_, _, _)
RestoreKeysAbort(w, mw, keys) ==
  IF keys = {}
    THEN Result(w, mw, "None", FALSE)
    ELSE LET h == CHOOSE k \in keys : \A j \in keys : k <= j
             r == restore_window(w, mw, h)
         IN  IF IsWindow(w, h)
               THEN RestoreKeysAbort(r.win, r.mw, keys \ {h})
               ELSE Result(w, mw, "None", FALSE)

\* The loop of restore_all over a snapshot of the keys; an exception of one
\* restore_window is swallowed and the loop goes on.
RECURSIVE RestoreKeys(_, _, _)
RestoreKeys(w, mw, keys) ==
  IF keys = {}
    THEN Result(w, mw, "None", FALSE)
    ELSE LET h == CHOOSE k \in keys : \A j \in keys : k <= j
             r == restore_window(w, mw, h)
         IN  RestoreKeys(r.win, r.mw, keys \ {h})

\* restore_all as it would be if it iterated the live dictionary instead of
\* a snapshot of its keys: the first deletion makes the for statement raise
\* (dictionary changed size during iteration), outside the try.
restore_all_live(w, mw) ==
  IF DOMAIN mw = {}
    THEN Result(w, mw, "None", FALSE)
    ELSE LET h == CHOOSE k \in DOMAIN mw : \A j \in DOMAIN mw : k <= j
             r == restore_window(w, mw, h)
         IN  Result(r.win, r.mw, "None", TRUE)

\* restore_all()
restore_all(w, mw) == RestoreKeys(w, mw, DOMAIN mw)

\* -------------------------------------------------------------- input arbiter

\* The loop of _poll_inputs as it would be without the check that skips
\* locked windows.
RECURSIVE PollKeysNoSkip(_, _, _, _)
PollKeysNoSkip(w, mw, keys, enable) ==
  IF keys = {}
    THEN Result(w, mw, "None", FALSE)
    ELSE LET h == CHOOSE k \in keys : \A j \in keys : k <= j
             r == set_passthrough_for_hwnd(w, mw, h, enable, FALSE)
         IN  PollKeysNoSkip(r.win, r.mw, keys \ {h}, enable)

\* The loop of _poll_inputs over a snapshot of the store's items: every
\* tracked window that is not locked gets set_passthrough_for_hwnd(hwnd,
\* enable); an exception of one call is swallowed and the loop goes on.
RECURSIVE PollKeys(_, _, _, _)
PollKeys(w, mw, keys, enable) ==
  IF keys = {}
    THEN Result(w, mw, "None", FALSE)
    ELSE LET h == CHOOSE k \in keys : \A j \in keys : k <= j
             r == IF mw[h].passthrough_locked
                    THEN Result(w, mw, "None", FALSE)
                    ELSE set_passthrough_for_hwnd(w, mw, h, enable, FALSE)
         IN  PollKeys(r.win, r.mw, keys \ {h}, enable)

\* The Ctrl half of _poll_inputs as it would be if it applied the key's
\* state on every tick, not only when the state changes.
ModifierHalfEveryTick(w, mw, held, pressed) ==
  PollKeys(w, mw, DOMAIN mw, pressed)

\* The Ctrl half of _poll_inputs: only when the key's state differs from
\* self.ctrl_held does the loop run.
ModifierHalf(w, mw, held, pressed) ==
  IF pressed # held
    THEN PollKeys(w, mw, DOMAIN mw, pressed)
    ELSE Result(w, mw, "None", FALSE)

\* Whether the toggle finds the selected window locked.
IsLocked(mw, s) == s \in DOMAIN mw /\ mw[s].passthrough_locked

\* The enable argument as it would be if unlocking always turned
\* click-through off.
ToggleEnableOff(mw, s, held) == ~IsLocked(mw, s)

\* The enable argument the toggle passes: the held state when unlocking,
\* True when locking.
ToggleEnable(mw, s, held) == IF IsLocked(mw, s) THEN held ELSE TRUE

\* The mark_locked argument the toggle passes.
ToggleLock(mw, s) == ~IsLocked(mw, s)

\* App._toggle_backtick_for_selected(); s is the selected handle (0: none),
\* held is self.ctrl_held.  ret is the ok the status line reports.
_toggle_backtick_for_selected(w, mw, s, held) ==
  IF s = 0
    THEN Result(w, mw, "None", FALSE)
    ELSE set_passthrough_for_hwnd(
           w, mw, s, ToggleEnable(mw, s, held), ToggleLock(mw, s))

\* ------------------------------------------------------------------ the state

\* What the last handler was (op), the window it addressed (h, 0 when none),
\* the arguments it passed to the engine (pct; enable, lock), what the engine
\* call returned (ret), whether an exception left the handler (exc) and how
\* many records it deleted (n).
Last(op, h, pct, enable, lock, ret, exc, n) ==
  [op |-> op, h |-> h, pct |-> pct, enable |-> enable, lock |-> lock,
   ret |-> ret, exc |-> exc, n |-> n]

\* The tk main loop dispatches callbacks: from start until it is left, and
\* also while a console control handler has returned and the system has not
\* yet ended the process (the handler runs on a thread of its own).
MainLoop == phase \in {"running", "closing"}

\* The keyboard before any key is touched.
KeyIdle ==
  [down |-> FALSE, focus |-> FALSE, pending |-> FALSE, focused |-> FALSE,
   fresh |-> FALSE, polled |-> FALSE, repeats |-> 0, toggles |-> 0]

\* Both threads of the statement-level specification at rest.
RaceIdle ==
  [mpc |-> "idle", mop |-> "none", mh |-> 0, mfound |-> FALSE, minfo |-> 0,
   mexc |-> {},
   hpc |-> "idle", hkeys |-> {}, hh |-> 0, hinfo |-> 0, hexc |-> FALSE,
   hruns |-> 0]

\* The state after construction, for desktops whose windows drop the alpha
\* on a style write (resets) or keep it, and are topmost or not as tops
\* allows.
InitDesktop(resets, tops) ==
  /\ win \in {w \in [Handles -> [ex : InitStyles(1) \cup InitStyles(2),
                                    alpha : {OPAQUE}, top : tops,
                                    alive : {TRUE}, resets : {resets}]] :
                \A h \in Handles : w[h].ex \in InitStyles(h)}
  /\ win0 = win
  /\ modified_windows = [k \in {} |-> NewRecord(0)]
  /\ ctrl_held = FALSE
  /\ backtick_prev = FALSE
  /\ sel = 0
  /\ phase = "running"
  /\ last = Last("init", 0, 0, FALSE, FALSE, "None", FALSE, 0)
  /\ os_windows = <<>>
  /\ windows_list = <<>>
  /\ keyb = KeyIdle
  /\ race = RaceIdle

\* The state after construction on a desktop without topmost windows.
InitWith(resets) == InitDesktop(resets, {FALSE})

Init == InitWith(FALSE)

\* ------------------------------------------------------------------ front end

\* App.on_select: the user picks a window in the combobox.
on_select(h) ==
  /\ MainLoop
  /\ sel # h
  /\ sel' = h
  /\ UNCHANGED <<win, win0, others, modified_windows, ctrl_held, backtick_prev,
                 phase, last>>

\* App.apply_to_selected with the slider at p.
apply_to_selected(p) ==
  /\ MainLoop
  /\ LET r == set_window_alpha(win, modified_windows, sel, p)
     IN  IF sel = 0
           THEN /\ last' = Last("apply", 0, p, FALSE, FALSE, "None", FALSE, 0)
                /\ UNCHANGED <<win, modified_windows>>
           ELSE /\ win' = r.win
                /\ modified_windows' = r.mw
                /\ last' = Last("apply", sel, p, FALSE, FALSE, r.ret, r.exc, 0)
  /\ UNCHANGED <<win0, others, ctrl_held, backtick_prev, sel, phase>>

\* App.restore_selected
restore_selected ==
  /\ MainLoop
  /\ LET r == restore_window(win, modified_windows, sel)
     IN  IF sel = 0
           THEN /\ last' = Last("restore", 0, 0, FALSE, FALSE, "None", FALSE, 0)
                /\ UNCHANGED <<win, modified_windows>>
           ELSE /\ win' = r.win
                /\ modified_windows' = r.mw
                /\ last' = Last("restore", sel, 0, FALSE, FALSE, r.ret, r.exc,
                                 Cardinality((DOMAIN modified_windows) \ DOMAIN r.mw))
  /\ UNCHANGED <<win0, others, ctrl_held, backtick_prev, sel, phase>>

\* The effect every trigger point of restore_all has on desktop and store.
RunRestoreAll(op) ==
  LET r == restore_all(win, modified_windows)
  IN  /\ win' = r.win
      /\ modified_windows' = r.mw
      /\ last' = Last(op, 0, 0, FALSE, FALSE, r.ret, r.exc,
                     Cardinality((DOMAIN modified_windows) \ DOMAIN r.mw))

\* App.restore_all_click
restore_all_click ==
  /\ MainLoop
  /\ RunRestoreAll("restore_all_click")
  /\ UNCHANGED <<win0, others, ctrl_held, backtick_prev, sel, phase>>

\* App.exit_app (the exit button and WM_DELETE_WINDOW): restore_all, then
\* root.quit() makes mainloop return after this callback.
exit_app ==
  /\ phase = "running"
  /\ RunRestoreAll("exit_app")
  /\ phase' = "quit"
  /\ UNCHANGED <<win0, others, ctrl_held, backtick_prev, sel>>

\* What one run of App._poll_inputs does to the application: pressed is
\* what _is_ctrl_held() reads, cur_b what GetAsyncKeyState reads of the
\* backtick key.
PollInputs(pressed, cur_b) ==
  /\ MainLoop
  /\ LET r1   == ModifierHalf(win, modified_windows, ctrl_held, pressed)
         edge == cur_b /\ ~backtick_prev
         r2   == IF edge
                   THEN _toggle_backtick_for_selected(r1.win, r1.mw, sel, pressed)
                   ELSE r1
         op   == IF pressed = ctrl_held THEN "poll"
                 ELSE IF pressed THEN "poll_press" ELSE "poll_release"
     IN  /\ win' = r2.win
         /\ modified_windows' = r2.mw
         /\ last' = IF edge /\ sel # 0
                      THEN Last(op, sel, 0, ToggleEnable(r1.mw, sel, pressed),
                                ToggleLock(r1.mw, sel), r2.ret, FALSE, 0)
                      ELSE Last(op, 0, 0, FALSE, FALSE, "None", FALSE, 0)
  /\ ctrl_held' = pressed
  /\ backtick_prev' = cur_b
  /\ UNCHANGED <<win0, sel, phase>>

\* App._poll_inputs, the two keys in any state.
_poll_inputs(pressed, cur_b) ==
  /\ PollInputs(pressed, cur_b)
  /\ UNCHANGED others

\* What the callback of the '`' binding does to the application.
BacktickCallback ==
  /\ MainLoop
  /\ LET r == _toggle_backtick_for_selected(win, modified_windows, sel, ctrl_held)
     IN  /\ win' = r.win
         /\ modified_windows' = r.mw
         /\ last' = IF sel # 0
                      THEN Last("backtick", sel, 0,
                                ToggleEnable(modified_windows, sel, ctrl_held),
                                ToggleLock(modified_windows, sel), r.ret, FALSE, 0)
                      ELSE Last("backtick", 0, 0, FALSE, FALSE, "None", FALSE, 0)
  /\ UNCHANGED <<win0, ctrl_held, backtick_prev, sel, phase>>

\* The '`' binding of the tool's own window (bind_all): the toggle runs as
\* a key event callback, at any time.
backtick_binding ==
  /\ BacktickCallback
  /\ UNCHANGED others

\* A direct call of the engine's set_passthrough_for_hwnd with any
\* arguments (the operation as the engine exposes it).
call_set_passthrough(h, enable, mark_locked) ==
  /\ MainLoop
  /\ LET r == set_passthrough_for_hwnd(win, modified_windows, h, enable, mark_locked)
     IN  /\ win' = r.win
         /\ modified_windows' = r.mw
         /\ last' = Last("set_passthrough", h, 0, enable, mark_locked, r.ret, r.exc, 0)
  /\ UNCHANGED <<win0, others, ctrl_held, backtick_prev, sel, phase>>

\* ---------------------------------------------------------- restoration guard

\* _py_signal_handler (SIGINT, SIGTERM): restore_all, then sys.exit(0); the
\* SystemExit leaves mainloop.
_py_signal_handler ==
  /\ phase = "running"
  /\ RunRestoreAll("signal")
  /\ phase' = "quit"
  /\ UNCHANGED <<win0, others, ctrl_held, backtick_prev, sel>>

\* _console_handler(dwCtrlType): restore_all on the handler's thread, then
\* return True.  After CTRL_C and CTRL_BREAK the process goes on; after
\* close, logoff and shutdown the system ends it.
_console_handler(dwCtrlType) ==
  /\ phase = "running"
  /\ RunRestoreAll("console")
  /\ phase' = IF dwCtrlType \in FatalCtrlTypes THEN "closing" ELSE phase
  /\ UNCHANGED <<win0, others, ctrl_held, backtick_prev, sel>>

\* The finally of main(), once mainloop has returned.
main_finally ==
  /\ phase = "quit"
  /\ RunRestoreAll("finally")
  /\ phase' = "atexit"
  /\ UNCHANGED <<win0, others, ctrl_held, backtick_prev, sel>>

\* atexit.register(restore_all): runs at interpreter exit.
atexit_restore_all ==
  /\ phase = "atexit"
  /\ RunRestoreAll("atexit")
  /\ phase' = "terminated"
  /\ UNCHANGED <<win0, others, ctrl_held, backtick_prev, sel>>

\* The system ends the process after a close, logoff or shutdown event.
system_terminate ==
  /\ phase = "closing"
  /\ phase' = "terminated"
  /\ last' = Last("terminate", 0, 0, FALSE, FALSE, "None", FALSE, 0)
  /\ UNCHANGED <<win, win0, others, modified_windows, ctrl_held, backtick_prev, sel>>

\* ---------------------------------------------------------------- environment

\* A window's owner destroys it: the handle goes stale.
window_closed(h) ==
  /\ phase # "terminated"
  /\ win[h].alive
  /\ win' = [win EXCEPT ![h].ex = 0, ![h].alpha = OPAQUE, ![h].top = FALSE,
                         ![h].alive = FALSE]
  /\ UNCHANGED <<win0, others, modified_windows, ctrl_held, backtick_prev, sel, phase,
                 last>>

\* ------------------------------------------------------------ specifications

Next ==
  \/ \E h \in Handles : on_select(h)
  \/ \E p \in Percents : apply_to_selected(p)
  \/ restore_selected
  \/ restore_all_click
  \/ exit_app
  \/ \E pressed \in BOOLEAN, cur_b \in BOOLEAN : _poll_inputs(pressed, cur_b)
  \/ backtick_binding
  \/ _py_signal_handler
  \/ \E t \in CtrlTypes : _console_handler(t)
  \/ main_finally
  \/ atexit_restore_all
  \/ system_terminate
  \/ \E h \in Handles : window_closed(h)

\* The application: front end, arbiter, exit paths and the desktop.
Spec == Init /\ [][Next]_vars

NextAPI ==
  \/ \E h \in Handles : on_select(h)
  \/ \E p \in Percents : apply_to_selected(p)
  \/ restore_selected
  \/ restore_all_click
  \/ \E pressed \in BOOLEAN, cur_b \in BOOLEAN : _poll_inputs(pressed, cur_b)
  \/ backtick_binding
  \/ \E h \in Handles, enable \in BOOLEAN, mark_locked \in BOOLEAN :
       call_set_passthrough(h, enable, mark_locked)
  \/ \E h \in Handles : window_closed(h)

\* The running application (no exit path taken), and the engine's
\* click-through operation called with any arguments.
SpecAPI == Init /\ [][NextAPI]_vars

NextAlpha ==
  \/ on_select(1)
  \/ \E p \in AllPercents : apply_to_selected(p)
  \/ restore_selected

\* The opacity conversion: window 1 selected, the slider (or a caller) at any
\* percent of AllPercents.
SpecAlpha == Init /\ [][NextAlpha]_vars

\* --------------------------------------------------------------- enumerator

\* The variables of the application proper, which the enumeration leaves
\* alone.
app ==
  <<win, win0, modified_windows, ctrl_held, backtick_prev, sel, phase, last>>

\* How many windows EnumWindows reports at most.
MaxEnum == 3

\* What EnumWindows can report about one window: its handle, whether it is
\* visible, and what GetAncestor(hwnd, GA_ROOT) returns (0: the call fails).
EnumEntries ==
  [hwnd : Handles, visible : BOOLEAN, root : {0} \cup Handles]

\* The handle _enum_proc uses for a reported window: its root ancestor, or
\* the window itself when GetAncestor returns NULL.
hwnd_use(e) == IF e.root # 0 THEN e.root ELSE e.hwnd

\* The list `windows` after EnumWindows has called _enum_proc on every
\* reported window: invisible windows and a zero handle are skipped.
\* (Title and class name ride along with the handle and are left out.)
RECURSIVE _enum_proc(_)
_enum_proc(os) ==
  IF os = <<>>
    THEN <<>>
    ELSE LET e   == Head(os)
             hid == hwnd_use(e)
         IN  (IF e.visible /\ hid # 0 THEN <<hid>> ELSE <<>>)
               \o _enum_proc(Tail(os))

\* The deduplication loop as it would be if `seen` remembered only the
\* handle appended last.
RECURSIVE UniqueAdjacent(_, _)
UniqueAdjacent(ws, seen) ==
  IF ws = <<>>
    THEN <<>>
    ELSE IF Head(ws) \in seen
           THEN UniqueAdjacent(Tail(ws), seen)
           ELSE <<Head(ws)>> \o UniqueAdjacent(Tail(ws), {Head(ws)})

\* The deduplication loop: an entry is kept when its handle is not in
\* `seen`, and its handle is then added to `seen`.
RECURSIVE Unique(_, _)
Unique(ws, seen) ==
  IF ws = <<>>
    THEN <<>>
    ELSE IF Head(ws) \in seen
           THEN Unique(Tail(ws), seen)
           ELSE <<Head(ws)>> \o Unique(Tail(ws), seen \cup {Head(ws)})

\* enum_top_level_windows()
enum_top_level_windows(os) == Unique(_enum_proc(os), {})

\* The desktop gains a window, which EnumWindows reports after the others.
window_appears(e) ==
  /\ Len(os_windows) < MaxEnum
  /\ os_windows' = Append(os_windows, e)
  /\ UNCHANGED <<app, windows_list, keyb, race>>

\* App.refresh_windows: self.windows_list is rebuilt from a fresh
\* enumeration.
refresh_windows ==
  /\ windows_list' = enum_top_level_windows(os_windows)
  /\ UNCHANGED <<app, os_windows, keyb, race>>

NextEnum ==
  \/ \E e \in EnumEntries : window_appears(e)
  \/ refresh_windows

\* The window picker: the desktop reports any sequence of at most MaxEnum
\* windows and the list is refreshed at any time.
SpecEnum == Init /\ [][NextEnum]_vars

\* The desktop whose windows drop their alpha whenever the style word is
\* written.
InitReset == InitWith(TRUE)

\* The running application on that desktop.
SpecReset == InitReset /\ [][NextAPI]_vars

\* ----------------------------------------------------------------- keyboard

\* How many auto-repeat key events one held key produces at most.
MaxRepeat == 1

\* keyb is the physical backtick key: whether it is down, whether the tool's
\* window has the keyboard focus, whether a KeyPress event waits in the
\* tool's event queue, and, for the press in progress or just ended,
\* whether the tool had the focus (focused), whether the arbiter had seen
\* the key up before it (fresh), whether a
\* poll tick has seen it down (polled), how many auto-repeat events it has
\* produced and how many times the toggle has run.

\* The user presses the backtick key; the window system queues a KeyPress
\* event for the tool when the tool's window has the focus.
key_press ==
  /\ MainLoop
  /\ ~keyb.down
  /\ ~keyb.pending
  /\ keyb' = [keyb EXCEPT !.down = TRUE, !.pending = keyb.focus,
                          !.focused = keyb.focus,
                          !.fresh = ~backtick_prev, !.polled = FALSE,
                          !.repeats = 0, !.toggles = 0]
  /\ UNCHANGED <<app, os_windows, windows_list, race>>

\* The held key auto-repeats: another KeyPress event for the focused tool.
key_repeat ==
  /\ MainLoop
  /\ keyb.down
  /\ keyb.focus
  /\ ~keyb.pending
  /\ keyb.repeats < MaxRepeat
  /\ keyb' = [keyb EXCEPT !.pending = TRUE, !.repeats = @ + 1]
  /\ UNCHANGED <<app, os_windows, windows_list, race>>

\* The user releases the key.
key_release ==
  /\ MainLoop
  /\ keyb.down
  /\ keyb' = [keyb EXCEPT !.down = FALSE]
  /\ UNCHANGED <<app, os_windows, windows_list, race>>

\* The keyboard focus moves to the tool's window or away from it, between
\* presses.
focus_change ==
  /\ MainLoop
  /\ ~keyb.down
  /\ ~keyb.pending
  /\ keyb' = [keyb EXCEPT !.focus = ~@]
  /\ UNCHANGED <<app, os_windows, windows_list, race>>

\* Tk delivers the queued KeyPress event: the callback of the binding runs.
key_event ==
  /\ keyb.pending
  /\ BacktickCallback
  /\ keyb' = [keyb EXCEPT !.pending = FALSE, !.toggles = @ + 1]
  /\ UNCHANGED <<os_windows, windows_list, race>>

\* A poll tick: GetAsyncKeyState reads the physical key.
poll_tick(pressed) ==
  /\ PollInputs(pressed, keyb.down)
  /\ keyb' = [keyb EXCEPT !.polled = @ \/ keyb.down,
                          !.toggles = IF keyb.down /\ ~backtick_prev
                                        THEN @ + 1 ELSE @]
  /\ UNCHANGED <<os_windows, windows_list, race>>

NextKey ==
  \/ \E h \in Handles : on_select(h)
  \/ key_press
  \/ key_repeat
  \/ key_release
  \/ focus_change
  \/ key_event
  \/ \E pressed \in BOOLEAN : poll_tick(pressed)

\* The toggle key as the user works it: presses and releases, with the
\* tool's window focused or not, polled by the timer and delivered by Tk.
SpecKey == Init /\ [][NextKey]_vars

\* ---------------------------------------------------------------- two threads

\* The console control handler runs on a thread of its own while the main
\* thread is inside a Tk callback; the threads switch between statements
\* (every Win32 call made through ctypes releases the interpreter lock).
\* race holds both threads' positions: of the main thread its position
\* (mpc), the operation it runs or ran last (mop), the handle (mh), whether
\* restore_window found the record (mfound), the orig_ex of the info it
\* fetched (minfo) and the operations an exception has left (mexc); of the handler thread its position (hpc), the keys of
\* its snapshot still to visit (hkeys), the handle it is at (hh), the
\* orig_ex of its info (hinfo), whether an exception has left restore_all
\* (hexc) and how many times the handler has run (hruns).

\* How many console control events arrive at most.
MaxEvents == 2

\* The percent the slider is at while the threads race.
RacePercent == 50

\* What a step of either thread leaves alone besides the desktop, the store
\* and the threads' positions.
RaceFrame ==
  UNCHANGED <<win0, ctrl_held, backtick_prev, sel, phase, last, os_windows,
              windows_list, keyb>>

\* The main thread is between callbacks.
MainIdle == race.mpc = "idle"

\* apply_to_selected is called: set_window_alpha(hwnd, val) begins.
main_apply_begin ==
  /\ MainLoop /\ MainIdle /\ sel # 0
  /\ race' = [race EXCEPT !.mpc = "a_entry", !.mop = "apply", !.mh = sel]
  /\ UNCHANGED <<win, modified_windows>>
  /\ RaceFrame

\* set_window_alpha, lines 165-170: the record is created when absent.
main_apply_entry ==
  /\ race.mpc = "a_entry"
  /\ modified_windows' = EnsureEntry(win, modified_windows, race.mh)
  /\ race' = [race EXCEPT !.mpc = "a_layered"]
  /\ UNCHANGED win
  /\ RaceFrame

\* set_window_alpha, lines 173-176: the layered bit is ensured.
main_apply_layered ==
  /\ race.mpc = "a_layered"
  /\ LET cur_ex == safe_GetWindowLongPtr(win, race.mh)
     IN  win' = IF ~HasBit(cur_ex, WS_EX_LAYERED)
                  THEN safe_SetWindowLongPtr(win, race.mh,
                                             BitOr(cur_ex, WS_EX_LAYERED))
                  ELSE win
  /\ race' = [race EXCEPT !.mpc = "a_alpha"]
  /\ UNCHANGED modified_windows
  /\ RaceFrame

\* set_window_alpha, lines 178-182: the alpha is set.
main_apply_alpha ==
  /\ race.mpc = "a_alpha"
  /\ win' = SetLayeredWindowAttributes(win, race.mh, AlphaByte(RacePercent))
  /\ race' = [race EXCEPT !.mpc = "a_store"]
  /\ UNCHANGED modified_windows
  /\ RaceFrame

\* set_window_alpha, line 183: modified_windows[hwnd]["alpha"] = a_byte
\* raises KeyError when the record is gone; nothing up to the Tk callback
\* catches it.
main_apply_store ==
  /\ race.mpc = "a_store"
  /\ IF race.mh \in DOMAIN modified_windows
       THEN /\ modified_windows' =
                 [modified_windows EXCEPT ![race.mh].alpha = AlphaByte(RacePercent)]
            /\ race' = [race EXCEPT !.mpc = "a_topmost"]
       ELSE /\ race' = [race EXCEPT !.mpc = "idle", !.mexc = @ \cup {"apply"}]
            /\ UNCHANGED modified_windows
  /\ UNCHANGED win
  /\ RaceFrame

\* set_window_alpha, lines 186-194: SetWindowPos, then is_topmost = True;
\* when the record is gone the assignment raises KeyError, the except
\* clause's own assignment raises it again, and it leaves the function.
main_apply_topmost ==
  /\ race.mpc = "a_topmost"
  /\ win' = SetWindowPos(win, race.mh, TRUE)
  /\ IF race.mh \in DOMAIN modified_windows
       THEN /\ modified_windows' =
                 [modified_windows EXCEPT ![race.mh].is_topmost = TRUE]
            /\ race' = [race EXCEPT !.mpc = "idle"]
       ELSE /\ race' = [race EXCEPT !.mpc = "idle", !.mexc = @ \cup {"apply"}]
            /\ UNCHANGED modified_windows
  /\ RaceFrame

\* restore_selected is called: restore_window(hwnd) begins.
main_restore_begin ==
  /\ MainLoop /\ MainIdle /\ sel # 0
  /\ race' = [race EXCEPT !.mpc = "r_check", !.mop = "restore", !.mh = sel]
  /\ UNCHANGED <<win, modified_windows>>
  /\ RaceFrame

\* restore_window, lines 262-263: the membership test and the fetch of info.
main_restore_check ==
  /\ race.mpc = "r_check"
  /\ race' = IF race.mh \in DOMAIN modified_windows
               THEN [race EXCEPT !.mpc = "r_revert", !.mfound = TRUE,
                                 !.minfo = modified_windows[race.mh].orig_ex]
               ELSE [race EXCEPT !.mpc = "idle", !.mfound = FALSE]
  /\ UNCHANGED <<win, modified_windows>>
  /\ RaceFrame

\* The three calls of restore_window, lines 264-277, with orig_ex as info
\* holds it.
Revert(w, h, orig_ex) ==
  remove_topmost(
    safe_SetWindowLongPtr(SetLayeredWindowAttributes(w, h, OPAQUE), h, orig_ex),
    h)

\* restore_window, lines 264-277, on the main thread.
main_restore_revert ==
  /\ race.mpc = "r_revert"
  /\ win' = Revert(win, race.mh, race.minfo)
  /\ race' = [race EXCEPT !.mpc = "r_del"]
  /\ UNCHANGED modified_windows
  /\ RaceFrame

\* restore_window, line 278: del modified_windows[hwnd] raises KeyError
\* when the record is gone; restore_selected does not catch it.
main_restore_del ==
  /\ race.mpc = "r_del"
  /\ IF race.mh \in DOMAIN modified_windows
       THEN /\ modified_windows' = DictDel(modified_windows, race.mh)
            /\ race' = [race EXCEPT !.mpc = "idle"]
       ELSE /\ race' = [race EXCEPT !.mpc = "idle", !.mexc = @ \cup {"restore"}]
            /\ UNCHANGED modified_windows
  /\ UNCHANGED win
  /\ RaceFrame

\* A console control event (CTRL_C or CTRL_BREAK, after which the process
\* goes on): _console_handler starts on its own thread and restore_all
\* takes its snapshot of the keys (line 282).
handler_begin ==
  /\ phase = "running"
  /\ race.hpc = "idle"
  /\ race.hruns < MaxEvents
  /\ race' = [race EXCEPT !.hpc = "h_next", !.hkeys = DOMAIN modified_windows,
                          !.hruns = @ + 1]
  /\ UNCHANGED <<win, modified_windows>>
  /\ RaceFrame

\* restore_all, lines 282-284: the next key of the snapshot, or the end of
\* the loop and of the handler.
handler_next ==
  /\ race.hpc = "h_next"
  /\ race' = IF race.hkeys = {}
               THEN [race EXCEPT !.hpc = "idle"]
               ELSE LET h == CHOOSE k \in race.hkeys :
                               \A j \in race.hkeys : k <= j
                    IN  [race EXCEPT !.hpc = "h_check", !.hh = h,
                                     !.hkeys = @ \ {h}]
  /\ UNCHANGED <<win, modified_windows>>
  /\ RaceFrame

\* restore_window, lines 262-263, on the handler's thread.
handler_check ==
  /\ race.hpc = "h_check"
  /\ race' = IF race.hh \in DOMAIN modified_windows
               THEN [race EXCEPT !.hpc = "h_revert",
                                 !.hinfo = modified_windows[race.hh].orig_ex]
               ELSE [race EXCEPT !.hpc = "h_next"]
  /\ UNCHANGED <<win, modified_windows>>
  /\ RaceFrame

\* restore_window, lines 264-277, on the handler's thread.
handler_revert ==
  /\ race.hpc = "h_revert"
  /\ win' = Revert(win, race.hh, race.hinfo)
  /\ race' = [race EXCEPT !.hpc = "h_del"]
  /\ UNCHANGED modified_windows
  /\ RaceFrame

\* restore_window, line 278, on the handler's thread: a KeyError is
\* swallowed by the except of restore_all (lines 285-286).
handler_del ==
  /\ race.hpc = "h_del"
  /\ modified_windows' = IF race.hh \in DOMAIN modified_windows
                           THEN DictDel(modified_windows, race.hh)
                           ELSE modified_windows
  /\ race' = [race EXCEPT !.hpc = "h_next"]
  /\ UNCHANGED win
  /\ RaceFrame

NextRace ==
  \/ \E h \in Handles : MainIdle /\ on_select(h)
  \/ main_apply_begin
  \/ main_apply_entry
  \/ main_apply_layered
  \/ main_apply_alpha
  \/ main_apply_store
  \/ main_apply_topmost
  \/ main_restore_begin
  \/ main_restore_check
  \/ main_restore_revert
  \/ main_restore_del
  \/ handler_begin
  \/ handler_next
  \/ handler_check
  \/ handler_revert
  \/ handler_del

\* The opacity and restore buttons on the main thread against restore_all
\* on the console handler's thread, statement by statement.
SpecRace == Init /\ [][NextRace]_vars

\* Both threads are between operations.
Quiescent == race.mpc = "idle" /\ race.hpc = "idle"

\* A desktop some of whose windows are topmost before the tool runs.
InitTop == InitDesktop(FALSE, BOOLEAN)

NextTop ==
  \/ \E h \in Handles : on_select(h)
  \/ \E p \in Percents : apply_to_selected(p)
  \/ backtick_binding
  \/ restore_selected
  \/ restore_all_click

\* Opacity, lock toggle and the two restore buttons on that desktop.
SpecTop == InitTop /\ [][NextTop]_vars

\* ------------------------------------------------------------ kinds of step

\* A step of the poll timer.
PollStep ==
  \E pressed \in BOOLEAN, cur_b \in BOOLEAN : _poll_inputs(pressed, cur_b)

\* A step in which the toggle runs: a poll tick that sees the backtick key's
\* rising edge, or the key binding.
ToggleStep == (PollStep /\ backtick_prev' /\ ~backtick_prev) \/ backtick_binding

\* A step of one of the six trigger points of restore_all.
RestoreAllStep ==
  \/ restore_all_click
  \/ exit_app
  \/ _py_signal_handler
  \/ \E t \in CtrlTypes : _console_handler(t)
  \/ main_finally
  \/ atexit_restore_all

\* Whether live window h has the click-through bit in desktop w.
ClickThrough(w, h) == HasBit(w[h].ex, WS_EX_TRANSPARENT)

\* --------------------------------------------------------------------- C1

\* C1: restore_selected on window h, after any run of the application,
\* removes h's record, raises nothing and leaves a live window's extended
\* style word equal to the word it had before the tool first touched it; a
\* restore of a window without a record changes neither the store nor the
\* desktop.
C1_RestoreReturnsOriginalStyle ==
  [][(restore_selected /\ sel # 0) =>
       /\ sel \notin DOMAIN modified_windows'
       /\ ~last'.exc
       /\ win'[sel].alive => win'[sel].ex = win0[sel].ex
       /\ sel \notin DOMAIN modified_windows =>
            win' = win /\ modified_windows' = modified_windows]_vars

\* A restore has deleted the record of a live window whose style word the
\* tool had changed, and the word is the original again.
C1_Witness ==
  /\ last.op = "restore"
  /\ last.n = 1
  /\ last.h \notin DOMAIN modified_windows
  /\ win[last.h].alive
  /\ win0[last.h].ex = WS_EX_TRANSPARENT
  /\ win[last.h].ex = win0[last.h].ex
  /\ ctrl_held

\* --------------------------------------------------------------------- C2

\* C2: when the process has terminated, by whichever exit path, the store
\* is empty and every live window has the extended style word it had before
\* the tool first touched it.
C2_TerminatedMeansRestored ==
  phase = "terminated" =>
    /\ DOMAIN modified_windows = {}
    /\ \A h \in Handles : win[h].alive => win[h].ex = win0[h].ex

\* --------------------------------------------------------------------- C3

\* C3: in every reachable state every record of the store that has
\* passthrough_locked set has passthrough set.
C3_LockedImpliesPassthrough ==
  \A h \in DOMAIN modified_windows :
    modified_windows[h].passthrough_locked => modified_windows[h].passthrough

\* The engine was called with enable = False and mark_locked = True, the
\* record it wrote is neither locked nor click-through, and some window is
\* locked at the same time.
C3_Witness ==
  /\ last.op = "set_passthrough"
  /\ ~last.enable
  /\ last.lock
  /\ last.h \in DOMAIN modified_windows
  /\ ~modified_windows[last.h].passthrough_locked
  /\ ~modified_windows[last.h].passthrough
  /\ \E g \in DOMAIN modified_windows : modified_windows[g].passthrough_locked

\* --------------------------------------------------------------------- C4

\* C4: a step of the arbiter (poll tick or key binding) in which the toggle
\* does not run on window h leaves a locked h's record unchanged and, if
\* h's click-through bit was set, leaves it set: a Ctrl transition never
\* turns a locked window's click-through off.
C4_LockedSurvivesModifier ==
  [][\A h \in Handles :
       ( /\ IsLocked(modified_windows, h)
         /\ PollStep \/ backtick_binding
         /\ ~(ToggleStep /\ sel = h) ) =>
           /\ h \in DOMAIN modified_windows'
           /\ modified_windows'[h] = modified_windows[h]
           /\ ClickThrough(win, h) => ClickThrough(win', h)]_vars

\* A poll tick has just seen Ctrl released while a live window is locked,
\* and that window is still click-through.
C4_Witness ==
  /\ last.op = "poll_release"
  /\ last.h = 0
  /\ \E h \in DOMAIN modified_windows :
       /\ modified_windows[h].passthrough_locked
       /\ modified_windows[h].passthrough
       /\ win[h].alive
       /\ ClickThrough(win, h)
       /\ ~ClickThrough(win0, h)

\* --------------------------------------------------------------------- C5

\* C5: when the toggle runs on a selected window that is locked, then, if
\* the arbiter's held state is true, the record's passthrough field is on
\* afterwards and a live window's click-through bit stays set; if the held
\* state is false, passthrough is off afterwards and the click-through bit
\* is clear.
C5_UnlockFollowsHeldState ==
  [][(ToggleStep /\ sel # 0 /\ IsLocked(modified_windows, sel)) =>
       /\ sel \in DOMAIN modified_windows'
       /\ IF ctrl_held'
            THEN /\ modified_windows'[sel].passthrough
                 /\ win'[sel].alive =>
                      ClickThrough(win, sel) /\ ClickThrough(win', sel)
            ELSE /\ ~modified_windows'[sel].passthrough
                 /\ ~ClickThrough(win', sel)]_vars

\* The toggle has just run its unlock branch on a live window with Ctrl not
\* held: the click-through bit is clear and passthrough is off.
C5_Witness ==
  /\ last.op \in {"poll", "poll_press", "poll_release", "backtick"}
  /\ last.h # 0
  /\ ~last.lock
  /\ ~last.enable
  /\ ~ctrl_held
  /\ win[last.h].alive
  /\ last.h \in DOMAIN modified_windows
  /\ ~modified_windows[last.h].passthrough
  /\ ~ClickThrough(win, last.h)

\* --------------------------------------------------------------------- C6

\* C6: after the toggle has run on a selected window that was locked, the
\* window's record has passthrough_locked = false, whatever the held state.
C6_ToggleUnlocks ==
  [][(ToggleStep /\ sel # 0 /\ IsLocked(modified_windows, sel)) =>
       /\ sel \in DOMAIN modified_windows'
       /\ ~modified_windows'[sel].passthrough_locked]_vars

\* --------------------------------------------------------------------- C7

\* C7: a run of restore_all from any of its trigger points raises nothing
\* and leaves the store empty; run on an empty store it changes no window.
C7_RestoreAllIdempotent ==
  [][RestoreAllStep =>
       /\ DOMAIN modified_windows' = {}
       /\ ~last'.exc
       /\ DOMAIN modified_windows = {} => win' = win]_vars

\* The atexit run of restore_all, which follows the runs of the exit
\* handler and of the finally, has found the store empty and deleted
\* nothing; both windows are alive and as they were before the tool ran.
C7_Witness ==
  /\ last.op = "atexit"
  /\ last.n = 0
  /\ phase = "terminated"
  /\ DOMAIN modified_windows = {}
  /\ \A h \in Handles : win[h].alive /\ win[h] = win0[h]

\* --------------------------------------------------------------------- C8

\* C8: orig_ex is written once per record: a step that creates h's record
\* stores the style word the window had before the step (for a live window
\* the word it had before the tool first touched it), and no step that
\* keeps the record changes orig_ex.
C8_OrigExWrittenOnce ==
  [][\A h \in Handles :
       /\ (h \in DOMAIN modified_windows /\ h \in DOMAIN modified_windows') =>
            modified_windows'[h].orig_ex = modified_windows[h].orig_ex
       /\ (h \notin DOMAIN modified_windows /\ h \in DOMAIN modified_windows') =>
            /\ modified_windows'[h].orig_ex = safe_GetWindowLongPtr(win, h)
            /\ win[h].alive => modified_windows'[h].orig_ex = win0[h].ex]_vars

\* A tracked live window whose style word the tool has changed twice (it is
\* layered and click-through now, and was neither) still has the original
\* word in orig_ex.
C8_Witness ==
  \E h \in DOMAIN modified_windows :
    /\ win[h].alive
    /\ win0[h].ex = 0
    /\ win[h].ex = WS_EX_LAYERED + WS_EX_TRANSPARENT
    /\ modified_windows[h].orig_ex = 0

\* --------------------------------------------------------------------- C9

\* clamp(p, 0, 100), written without max and min.
Clamp(p) == IF p < 0 THEN 0 ELSE IF p > 100 THEN 100 ELSE p

\* C9: after apply_to_selected with the slider at p, the record's alpha a is
\* floor(clamp(p, 0, 100) * 255 / 100), that is 100 * a <= 255 * clamp(p) <
\* 100 * (a + 1); it lies in 0 .. 255, and p = 0, 50, 100 give 0, 127, 255.
C9_AlphaIsFloorOfScaledPercent ==
  (last.op = "apply" /\ last.h # 0) =>
    /\ last.h \in DOMAIN modified_windows
    /\ LET a == modified_windows[last.h].alpha
           c == Clamp(last.pct)
       IN  /\ a \in 0 .. 255
           /\ 100 * a <= 255 * c
           /\ 255 * c < 100 * (a + 1)
           /\ last.pct = 0 => a = 0
           /\ last.pct = 50 => a = 127
           /\ last.pct = 100 => a = 255

\* Opacity 50 has been applied and the record holds 127.
C9_Witness ==
  /\ last.op = "apply"
  /\ last.h = 1
  /\ last.pct = 50
  /\ 1 \in DOMAIN modified_windows
  /\ modified_windows[1].alpha = 127

\* -------------------------------------------------------------------- C10

\* C10: when the toggle calls set_passthrough_for_hwnd on a window that no
\* longer exists (the calls that read and write its style word fail), the
\* call returns false, raises nothing, and the record's passthrough and
\* passthrough_locked fields hold the requested enable and lock.
C10_FailureReturnsFalse ==
  [][(ToggleStep /\ sel # 0 /\ ~win[sel].alive) =>
       /\ last'.ret = "False"
       /\ ~last'.exc
       /\ sel \in DOMAIN modified_windows'
       /\ modified_windows'[sel].passthrough = last'.enable
       /\ modified_windows'[sel].passthrough_locked = last'.lock]_vars

\* -------------------------------------------------------------------- C11

\* A step of apply_to_selected with a window selected.
ApplyStep == sel # 0 /\ \E p \in Percents : apply_to_selected(p)

\* C11: set_window_alpha(h, p) returns false if and only if the call that
\* sets the alpha fails (the window no longer exists); when it returns
\* false the record of h exists afterwards, created if absent and kept if
\* present, with the style word captured at its creation, and when it
\* returns true the window shows the alpha the record holds.
C11_FalseIffAlphaCallFails ==
  [][ApplyStep =>
       /\ last'.ret = "False" <=> ~IsWindow(win, sel)
       /\ last'.ret \in {"True", "False"}
       /\ ~last'.exc
       /\ sel \in DOMAIN modified_windows'
       /\ modified_windows'[sel].orig_ex =
            IF sel \in DOMAIN modified_windows
              THEN modified_windows[sel].orig_ex
              ELSE safe_GetWindowLongPtr(win, sel)
       /\ last'.ret = "True" =>
            win'[sel].alpha = modified_windows'[sel].alpha]_vars

\* Opacity was applied to a destroyed window that had no record: the call
\* returned false and the record now exists.
C11_Witness ==
  /\ last.op = "apply"
  /\ last.h # 0
  /\ last.ret = "False"
  /\ ~win[last.h].alive
  /\ last.h \in DOMAIN modified_windows
  /\ modified_windows[last.h].alpha = AlphaByte(last.pct)
  /\ modified_windows[last.h].orig_ex = 0

\* -------------------------------------------------------------------- C19

\* C19: after set_window_alpha(h, p) the record's is_topmost is true if
\* and only if the SetWindowPos call that makes the window topmost
\* succeeded (it fails on a window that no longer exists), and the record
\* holds the requested alpha either way.
C19_TopmostIffCallSucceeded ==
  [][ApplyStep =>
       /\ sel \in DOMAIN modified_windows'
       /\ modified_windows'[sel].is_topmost <=> IsWindow(win, sel)
       /\ modified_windows'[sel].alpha = AlphaByte(last'.pct)]_vars

\* -------------------------------------------------------------------- C20

\* C20: whichever tracked windows have been destroyed (their calls fail),
\* a run of restore_all empties the store and gives every other tracked
\* window its captured style word back, and a poll tick that sees the Ctrl
\* key change state sets the passthrough field of every tracked window
\* that is not locked, and the click-through bit of those that exist, to
\* the key's state (the selected window excepted when the same tick
\* toggles it).
C20_FailureDoesNotStopTheRest ==
  [][/\ RestoreAllStep =>
          /\ DOMAIN modified_windows' = {}
          /\ \A h \in DOMAIN modified_windows :
               IsWindow(win, h) => win'[h].ex = modified_windows[h].orig_ex
     /\ (PollStep /\ ctrl_held' # ctrl_held) =>
          \A h \in DOMAIN modified_windows :
            (/\ ~modified_windows[h].passthrough_locked
             /\ ~(h = sel /\ backtick_prev' /\ ~backtick_prev)) =>
               /\ h \in DOMAIN modified_windows'
               /\ modified_windows'[h].passthrough = ctrl_held'
               /\ IsWindow(win, h) => ClickThrough(win', h) = ctrl_held']_vars

\* The restore button has deleted both records although window 1, the
\* first of the sweep, no longer exists: window 2 is as it was before the
\* tool ran.
C20_Witness ==
  /\ last.op = "restore_all_click"
  /\ last.n = 2
  /\ ~last.exc
  /\ ~win[1].alive
  /\ win[2].alive
  /\ win[2] = win0[2]
  /\ DOMAIN modified_windows = {}

\* -------------------------------------------------------------------- C17

\* C17: a poll tick on which the Ctrl key's state equals ctrl_held makes no
\* call for the Ctrl signal: without a rising edge of the backtick key the
\* tick leaves the store and every window as they are, and with one the
\* tick's whole effect is that of the toggle on the store and desktop as
\* they were before the tick.
C17_NoTransitionNoAction ==
  [][(PollStep /\ ctrl_held' = ctrl_held) =>
       LET r == IF backtick_prev' /\ ~backtick_prev
                  THEN _toggle_backtick_for_selected(win, modified_windows,
                                                     sel, ctrl_held)
                  ELSE Result(win, modified_windows, "None", FALSE)
       IN  /\ win' = r.win
           /\ modified_windows' = r.mw]_vars

\* A tick has seen Ctrl still held and has left alone a window that became
\* tracked after the key went down: tracked, not locked, not click-through.
C17_Witness ==
  /\ last.op = "poll"
  /\ ctrl_held
  /\ \E h \in DOMAIN modified_windows :
       /\ win[h].alive
       /\ ~modified_windows[h].passthrough_locked
       /\ ~modified_windows[h].passthrough
       /\ ~ClickThrough(win, h)

\* -------------------------------------------------------------------- C16

\* C16: after every poll tick every tracked window is click-through
\* exactly when it is locked or the Ctrl key is held: its record's
\* passthrough field says so, and so does the style bit of a window that
\* exists and was not click-through before the tool touched it.
C16_ClickThroughIsLockedOrHeld ==
  [][PollStep =>
       \A h \in DOMAIN modified_windows' :
         LET rec  == modified_windows'[h]
             want == rec.passthrough_locked \/ ctrl_held'
         IN  /\ rec.passthrough = want
             /\ (IsWindow(win', h) /\ ~HasBit(rec.orig_ex, WS_EX_TRANSPARENT))
                  => ClickThrough(win', h) = want]_vars

\* -------------------------------------------------------------------- C12

\* The handles that occur in sequence s.
Range(s) == {s[i] : i \in 1 .. Len(s)}

\* C12: the list refresh_windows builds holds no handle twice and holds
\* exactly the non-zero resolved handles of the visible windows
\* EnumWindows reports, whatever the sequence reported.
C12_EachHandleOnce ==
  [][refresh_windows =>
       /\ \A i, j \in 1 .. Len(windows_list') :
            windows_list'[i] = windows_list'[j] => i = j
       /\ Range(windows_list') =
            {hwnd_use(os_windows[i]) :
               i \in {k \in 1 .. Len(os_windows) :
                        /\ os_windows[k].visible
                        /\ hwnd_use(os_windows[k]) # 0}}]_vars

\* Three visible windows were reported; the first and the last resolve to
\* the same top-level window, the middle one to another, and the list
\* holds two entries.
C12_Witness ==
  /\ Len(os_windows) = 3
  /\ \A i \in 1 .. 3 : os_windows[i].visible
  /\ hwnd_use(os_windows[1]) = hwnd_use(os_windows[3])
  /\ hwnd_use(os_windows[1]) # hwnd_use(os_windows[2])
  /\ os_windows[1].hwnd # os_windows[3].hwnd
  /\ windows_list = <<hwnd_use(os_windows[1]), hwnd_use(os_windows[2])>>

\* -------------------------------------------------------------------- C18

\* C18: on a desktop where writing the style word drops the alpha, every
\* step that changes the click-through bit of a window and leaves it
\* tracked leaves the window showing the alpha its record holds: the alpha
\* is set again after the style write, on every such call.
C18_AlphaReappliedAfterStyleWrite ==
  [][\A h \in Handles :
       (/\ IsWindow(win, h)
        /\ IsWindow(win', h)
        /\ win[h].resets
        /\ ClickThrough(win', h) # ClickThrough(win, h)
        /\ h \in DOMAIN modified_windows') =>
          win'[h].alpha = modified_windows'[h].alpha]_vars

\* The toggle has found window 2 locked (its click-through bit set by an
\* earlier call) and has cleared the bit again: the window, whose alpha a
\* style write drops, shows the 127 of its record.
C18_Witness ==
  /\ last.op = "backtick"
  /\ last.h = 2
  /\ ~last.enable
  /\ ~last.lock
  /\ win[2].alive
  /\ win[2].resets
  /\ ~ClickThrough(win, 2)
  /\ 2 \in DOMAIN modified_windows
  /\ modified_windows[2].alpha = 127
  /\ win[2].alpha = 127

\* -------------------------------------------------------------------- C15

\* C15: one press of the backtick key runs the toggle on the selected
\* window exactly once, whether or not the tool's window has the focus:
\* when the key, which the arbiter had seen up before and a poll tick has
\* seen down, is released and no key event is waiting, the toggle has run
\* once for that press.
C15_OnePressOneToggle ==
  (/\ ~keyb.down
   /\ keyb.fresh
   /\ keyb.polled
   /\ ~keyb.pending
   /\ sel # 0) => keyb.toggles = 1

\* -------------------------------------------------------------------- C13

\* C13: however restore_all on the handler's thread interleaves with
\* set_window_alpha on the main thread, set_window_alpha raises nothing,
\* and once both threads are between operations every window that exists
\* and has no record is as it was before the tool touched it.
C13_NoModifiedWindowWithoutRecord ==
  /\ "apply" \notin race.mexc
  /\ Quiescent =>
       \A h \in Handles :
         (IsWindow(win, h) /\ h \notin DOMAIN modified_windows) =>
            win[h] = win0[h]

\* -------------------------------------------------------------------- C14

\* C14: when restore_window(h) on the main thread races with restore_all on
\* the handler's thread, neither raises, and once both have ended a
\* restore_window that found h's record has left h without a record and
\* with the style word the record had captured.
C14_RacingRestoresDoNotRaise ==
  /\ "restore" \notin race.mexc
  /\ ~race.hexc
  /\ (Quiescent /\ race.mop = "restore" /\ race.mfound) =>
       /\ race.mh \notin DOMAIN modified_windows
       /\ IsWindow(win, race.mh) => win[race.mh].ex = race.minfo

\* -------------------------------------------------------------------- C23

\* The step leaves every window but h, and its record, as they were.
OthersUntouched(h) ==
  \A k \in Handles \ {h} :
    /\ win'[k] = win[k]
    /\ k \in DOMAIN modified_windows' <=> k \in DOMAIN modified_windows
    /\ k \in DOMAIN modified_windows => modified_windows'[k] = modified_windows[k]

\* The step keeps h's record and the fields fs of it.
FieldsKept(h, fs) ==
  h \in DOMAIN modified_windows =>
    /\ h \in DOMAIN modified_windows'
    /\ \A f \in fs : modified_windows'[h][f] = modified_windows[h][f]

\* C23: each operation changes only its own fields of its own window's
\* record: set_window_alpha(h, p) keeps passthrough, passthrough_locked and
\* orig_ex of h; set_passthrough_for_hwnd(h, ..), called directly or by the
\* toggle, keeps alpha, is_topmost and orig_ex of h; and neither these nor
\* restore_window(h) change any other window or its record.
C23_OperationsTouchOnlyTheirFields ==
  [][/\ ApplyStep =>
          /\ FieldsKept(sel, {"passthrough", "passthrough_locked", "orig_ex"})
          /\ OthersUntouched(sel)
     /\ \A h \in Handles, enable \in BOOLEAN, mark_locked \in BOOLEAN :
          call_set_passthrough(h, enable, mark_locked) =>
            /\ FieldsKept(h, {"alpha", "is_topmost", "orig_ex"})
            /\ OthersUntouched(h)
     /\ (backtick_binding /\ sel # 0) =>
          /\ FieldsKept(sel, {"alpha", "is_topmost", "orig_ex"})
          /\ OthersUntouched(sel)
     /\ (restore_selected /\ sel # 0) => OthersUntouched(sel)]_vars

\* Opacity was applied to a window that is locked click-through while the
\* other window has a record of its own: the lock is still on.
C23_Witness ==
  /\ last.op = "apply"
  /\ last.h # 0
  /\ DOMAIN modified_windows = Handles
  /\ modified_windows[last.h].passthrough_locked
  /\ modified_windows[last.h].passthrough
  /\ modified_windows[last.h].alpha = AlphaByte(last.pct)

\* -------------------------------------------------------------------- C22

\* C22: in every reachable state the passthrough field of the record of
\* every tracked window that exists equals whether the window's
\* click-through style bit is set, whatever style word the window had
\* before it was tracked.
C22_PassthroughFieldIsStyleBit ==
  \A h \in DOMAIN modified_windows :
    IsWindow(win, h) => (modified_windows[h].passthrough <=> ClickThrough(win, h))

\* -------------------------------------------------------------------- C21

\* C21: after restore_window(h), from the restore button or from
\* restore_all, window h is topmost if and only if it was topmost before
\* the tool first touched it, whether or not the tool made it topmost.
C21_RestoreKeepsOriginalStacking ==
  [][\A h \in DOMAIN modified_windows :
       (/\ IsWindow(win, h)
        /\ (restore_selected /\ sel = h) \/ restore_all_click) =>
          win'[h].top = win0[h].top]_vars

====
